---- MODULE Spec2Model ----
(***************************************************************************)
(* Model of jellyfin_recap.py: one run of generate_jellyfin_recap started  *)
(* from the script entry point (lines 273-277).  The Jellyfin server is    *)
(* the environment: every requests.get either fails (the helper raises)    *)
(* or answers with a value drawn from a bounded set.  The parameter is     *)
(* spelt server_addres (line 113) and never read: the body reads the       *)
(* module-level server_address of line 276, which the script entry sets.   *)
(*                                                                         *)
(* Representation.                                                         *)
(*  - A Python dict keeps insertion order; most_listened_songs,            *)
(*    most_listened_artists and minutes_listened are functions over the    *)
(*    user names, iterated in the order of Keys (the order of `users`).    *)
(*    The local dict `artists` is the sequence of its items().             *)
(*  - most_listened_songs[user] holds references to the dicts of           *)
(*    item_data; a reference is the index of the item in item_data.        *)
(*  - RunTimeTicks / 6e7 is a float.  The modelled runtimes are whole      *)
(*    multiples of a quarter minute, for which the quotient and every      *)
(*    product and sum formed from it are exact binary fractions;           *)
(*    minutes_listened holds the value in quarter minutes.                 *)
(*  - An exception halts the run: error names it and pc stays at the       *)
(*    statement that raised it.                                            *)
(***************************************************************************)
EXTENDS Integers, Sequences, FiniteSets, TLC

\* ---------------------------------------------------------------- bounds
MaxItems == 2
MaxPlayCount == 1
MaxTop == 2

\* --------------------------------------------------- program constants
\* Line 190: the 6e7 ticks of a minute.
TicksPerMinute == 60000000
QuarterMinuteTicks == TicksPerMinute \div 4

VARIABLES
  server,                 \* which server answers the requests
  num_top_songs,          \* argument of generate_jellyfin_recap
  num_top_artists,        \* argument of generate_jellyfin_recap
  pc,                     \* the statement the run is at
  error,                  \* "none", or the exception that halted the run
  item_data,              \* list of item dicts
  users,                  \* list of user dicts
  item_idx,               \* position of the loop over item_data (line 151)
  user_idx,               \* position of the current loop over the users
  most_listened_songs,    \* user name -> list of item references
  most_listened_artists,  \* user name -> list of <<artist, total>>
  artists,                \* the local accumulator of line 177
  minutes_listened,       \* user name -> quarter minutes
  dumps,                  \* snapshot files written (users.json, all_items.json)
  assets,                 \* file names under <output_dir>/assets
  docs                    \* html file name -> what was written to it

vars == << server, num_top_songs, num_top_artists, pc, error, item_data, users,
           item_idx, user_idx, most_listened_songs, most_listened_artists,
           artists, minutes_listened, dumps, assets, docs >>

\* ------------------------------------------------------------- helpers
Min(a, b) == IF a <= b THEN a ELSE b

Range(s) == { s[p] : p \in 1..Len(s) }

Reverse(s) == [ p \in 1..Len(s) |-> s[Len(s) + 1 - p] ]

Take(s, n) == SubSeq(s, 1, Min(n, Len(s)))

RECURSIVE SeqSum(_)
SeqSum(s) == IF s = << >> THEN 0 ELSE s[1] + SeqSum(Tail(s))

\* ------------------------------------------------- the server's answers
\* An item as GET /Items returns it.  UserData is the dict line 152 creates.
Item(id, artistlist, ticks) ==
  [ Id |-> id, Name |-> id, Artists |-> artistlist, RunTimeTicks |-> ticks,
    UserData |-> << >> ]

ItemIds == << "T1", "T2", "T3", "T4" >>

\* The artist credits and runtimes a bounded server gives an item.
ItemShapes ==
  { << << "A" >>, TicksPerMinute >>,
    << << "B", "A" >>, 2 * QuarterMinuteTicks >> }

Catalogs ==
  UNION { { [ p \in 1..n |-> Item(ItemIds[p], sh[p][1], sh[p][2]) ] :
            sh \in [ 1..n -> ItemShapes ] } : n \in 0..MaxItems }

User(name) == [ Id |-> "id-" \o name, Name |-> name ]

UserLists ==
  { << >>,
    << User("maf") >>, << User("alice") >>,
    << User("maf"), User("alice") >>, << User("alice"), User("maf") >> }

\* The end-to-end scenario of the specification: S1 2 min, S2 1 min, S3 3 min.
ScenarioCatalog ==
  << Item("S1", << "A" >>, 2 * TicksPerMinute),
     Item("S2", << "B" >>, TicksPerMinute),
     Item("S3", << "A", "B" >>, 3 * TicksPerMinute) >>

ScenarioUserLists ==
  { << User("alice"), User("bob") >>, << User("bob"), User("alice") >> }

ScenarioPlayCount ==
  [ u \in { "id-alice", "id-bob" } |->
      IF u = "id-alice" THEN [ i \in { "S1", "S2", "S3" } |->
                                 CASE i = "S1" -> 3 [] i = "S2" -> 1 [] OTHER -> 0 ]
                        ELSE [ i \in { "S1", "S2", "S3" } |->
                                 CASE i = "S1" -> 0 [] i = "S2" -> 5 [] OTHER -> 2 ] ]

\* The servers a run may talk to: one whose every answer is well formed, one
\* whose UserData answers may lack the PlayCount, and the scenario's server.
Servers == { "bounded", "faulty", "scenario" }

ServerItems(srv) == IF srv = "scenario" THEN { ScenarioCatalog } ELSE Catalogs

ServerUsers(srv) == IF srv = "scenario" THEN ScenarioUserLists ELSE UserLists

\* The JSON of GET /UserItems/{item_id}/UserData?userId={user_id}: a dict
\* with a PlayCount, or one without it.
ServerUserData(srv, item_id, user_id) ==
  CASE srv = "scenario" -> { [ PlayCount |-> ScenarioPlayCount[user_id][item_id] ] }
    [] srv = "faulty"   -> { [ PlayCount |-> MaxPlayCount ], [ Played |-> FALSE ] }
    [] OTHER            -> { [ PlayCount |-> n ] : n \in 0..MaxPlayCount }

\* ------------------------------------------------------ pure functions
\* The dict keys of most_listened_songs and of the dicts built like it.
Keys == [ p \in 1..Len(users) |-> users[p].Name ]

\* A lookup that reads a missing PlayCount as zero plays.
PlayCountOrZero(item, user) ==
  IF user \in DOMAIN item.UserData /\ "PlayCount" \in DOMAIN item.UserData[user]
    THEN [ ok |-> TRUE, value |-> item.UserData[user].PlayCount ]
    ELSE [ ok |-> TRUE, value |-> 0 ]

\* x["UserData"][user]["PlayCount"]: ok is FALSE where Python raises KeyError.
PlayCount(item, user) ==
  IF user \in DOMAIN item.UserData /\ "PlayCount" \in DOMAIN item.UserData[user]
    THEN [ ok |-> TRUE, value |-> item.UserData[user].PlayCount ]
    ELSE [ ok |-> FALSE, value |-> 0 ]

\* list.sort, ascending by key[x]: a stable sort, here by insertion.
Insert(t, x, key) ==
  LET n == Cardinality({ p \in 1..Len(t) : key[t[p]] <= key[x] })
  IN  SubSeq(t, 1, n) \o << x >> \o SubSeq(t, n + 1, Len(t))

RECURSIVE SortAscending(_, _)
SortAscending(s, key) ==
  IF s = << >> THEN << >>
  ELSE Insert(SortAscending(SubSeq(s, 1, Len(s) - 1), key), s[Len(s)], key)

\* An ascending sort read backwards: equal keys come out in reverse input order.
SortedBackwards(s, key) == Reverse(SortAscending(s, key))

\* sorted(s, key=..., reverse=True): CPython reverses the list, sorts it
\* ascending and reverses the result, which keeps equal keys in input order.
SortedReverse(s, key) == Reverse(SortAscending(Reverse(s), key))

\* Line 171: sorted(item_data, key=PlayCount of user, reverse=True)[:num_top_songs]
TopSongs(items, user, n) ==
  LET key == [ p \in 1..Len(items) |-> PlayCount(items[p], user).value ]
  IN  Take(SortedReverse([ p \in 1..Len(items) |-> p ], key), n)

\* A credit that splits the play count between the artists of the item.
AddHalfCredit(acc, artist, plays) ==
  IF \E p \in 1..Len(acc) : acc[p][1] = artist
    THEN [ p \in 1..Len(acc) |->
             IF acc[p][1] = artist THEN << artist, acc[p][2] + (plays \div 2) >>
                                   ELSE acc[p] ]
    ELSE Append(acc, << artist, plays \div 2 >>)

\* Lines 180-183: one credit of an item added to the accumulator.
AddCredit(acc, artist, plays) ==
  IF \E p \in 1..Len(acc) : acc[p][1] = artist
    THEN [ p \in 1..Len(acc) |->
             IF acc[p][1] = artist THEN << artist, acc[p][2] + plays >> ELSE acc[p] ]
    ELSE Append(acc, << artist, plays >>)

RECURSIVE AddCredits(_, _, _)
AddCredits(acc, artistlist, plays) ==
  IF artistlist = << >> THEN acc
  ELSE AddCredits(AddCredit(acc, artistlist[1], plays), Tail(artistlist), plays)

\* Lines 178-183: the loop over item_data, starting from the accumulator acc.
RECURSIVE Accumulate(_, _, _)
Accumulate(acc, items, user) ==
  IF items = << >> THEN acc
  ELSE Accumulate(AddCredits(acc, items[1].Artists, PlayCount(items[1], user).value),
                  Tail(items), user)

\* An accumulator kept from the previous user.
StaleArtists(previous) == previous

\* Line 177: the accumulator each user starts from.
FreshArtists(previous) == << >>

\* Line 184: sorted(artists.items(), key=total, reverse=True)[:num_top_artists]
TopArtists(acc, n) ==
  LET key == [ e \in Range(acc) |-> e[2] ]
  IN  Take(SortedReverse(acc, key), n)

\* Whole minutes only: RunTimeTicks // 6e7.
ItemWholeMinutes(item, user) ==
  ((item.RunTimeTicks \div TicksPerMinute) * 4) * PlayCount(item, user).value

\* Line 190: (RunTimeTicks / 6e7) * PlayCount, in quarter minutes.
ItemMinutes(item, user) ==
  (item.RunTimeTicks \div QuarterMinuteTicks) * PlayCount(item, user).value

Minutes(items, user) ==
  SeqSum([ p \in 1..Len(items) |-> ItemMinutes(items[p], user) ])

\* Some x["UserData"][user]["PlayCount"] of the loops over item_data raises.
KeyErrorFor(items, user) ==
  \E p \in 1..Len(items) : ~PlayCount(items[p], user).ok

\* Line 201: the name of a user's document.
HtmlOutput(user) == user \o "_jellyfin_wrapped.html"

\* Line 250: the image reference of a document.
ImageRef(item_id) == "./assets/" \o item_id

\* ---------------------------------------------------------------- Init
Init ==
  /\ server \in Servers
  /\ num_top_songs \in 0..MaxTop
  /\ num_top_artists \in 0..MaxTop
  /\ pc = "get_items"
  /\ error = "none"
  /\ item_data = << >>
  /\ users = << >>
  /\ item_idx = 1
  /\ user_idx = 1
  /\ most_listened_songs = << >>
  /\ most_listened_artists = << >>
  /\ artists = << >>
  /\ minutes_listened = << >>
  /\ dumps = { }
  /\ assets = { }
  /\ docs = << >>

Running(at) == pc = at /\ error = "none"

\* The exception kind is recorded and nothing else changes.
Raise(kind) ==
  /\ error' = kind
  /\ UNCHANGED << server, num_top_songs, num_top_artists, pc, item_data, users,
                  item_idx, user_idx, most_listened_songs, most_listened_artists,
                  artists, minutes_listened, dumps, assets, docs >>

\* A requests.get whose response is not ok: the helper raises Exception.
FetchFails ==
  /\ pc \in { "get_items", "get_users", "add_userdata", "get_image" }
  /\ error = "none"
  /\ pc = "add_userdata" => (item_idx <= Len(item_data) /\ users # << >>)
  /\ pc = "get_image" => most_listened_songs[Keys[user_idx]] # << >>
  /\ Raise("Exception")

\* Line 141.
GetAllAudioItems ==
  /\ Running("get_items")
  /\ \E catalog \in ServerItems(server) : item_data' = catalog
  /\ pc' = "get_users"
  /\ UNCHANGED << server, num_top_songs, num_top_artists, error, users, item_idx,
                  user_idx, most_listened_songs, most_listened_artists, artists,
                  minutes_listened, dumps, assets, docs >>

\* Lines 146-149.
GetAllUsers ==
  /\ Running("get_users")
  /\ \E list \in ServerUsers(server) : users' = list
  /\ dumps' = dumps \cup { "users.json" }
  /\ pc' = "add_userdata"
  /\ item_idx' = 1
  /\ user_idx' = 1
  /\ UNCHANGED << server, num_top_songs, num_top_artists, error, item_data,
                  most_listened_songs, most_listened_artists, artists,
                  minutes_listened, assets, docs >>

\* Lines 151-155: one pass of the inner loop, for item item_idx and user user_idx.
AddItemUserData ==
  /\ Running("add_userdata")
  /\ item_idx <= Len(item_data)
  /\ users # << >>
  /\ \E userdata \in ServerUserData(server, item_data[item_idx].Id, users[user_idx].Id) :
       LET old == IF user_idx = 1 THEN << >> ELSE item_data[item_idx].UserData
       IN  item_data' = [ item_data EXCEPT ![item_idx].UserData =
                            (users[user_idx].Name :> userdata) @@ old ]
  /\ IF user_idx < Len(users)
       THEN user_idx' = user_idx + 1 /\ item_idx' = item_idx
       ELSE user_idx' = 1 /\ item_idx' = item_idx + 1
  /\ UNCHANGED << server, num_top_songs, num_top_artists, pc, error, users,
                  most_listened_songs, most_listened_artists, artists,
                  minutes_listened, dumps, assets, docs >>

\* Lines 156-167: the loop is over, all_items.json is written and
\* most_listened_songs is created.
DumpAllItems ==
  /\ Running("add_userdata")
  /\ item_idx > Len(item_data) \/ users = << >>
  /\ dumps' = dumps \cup { "all_items.json" }
  /\ most_listened_songs' = [ u \in Range(Keys) |-> << >> ]
  /\ pc' = IF users = << >> THEN "print" ELSE "top_songs"
  /\ user_idx' = 1
  /\ UNCHANGED << server, num_top_songs, num_top_artists, error, item_data, users,
                  item_idx, most_listened_artists, artists, minutes_listened,
                  assets, docs >>

\* Lines 170-171 for one user, and at the end of the loop line 174.
MostListenedSongs ==
  /\ Running("top_songs")
  /\ LET user == Keys[user_idx] IN
       IF KeyErrorFor(item_data, user)
         THEN Raise("KeyError")
         ELSE /\ most_listened_songs' =
                   [ most_listened_songs EXCEPT
                       ![user] = @ \o TopSongs(item_data, user, num_top_songs) ]
              /\ IF user_idx < Len(users)
                   THEN /\ user_idx' = user_idx + 1
                        /\ UNCHANGED << pc, most_listened_artists >>
                   ELSE /\ user_idx' = 1
                        /\ pc' = "top_artists"
                        /\ most_listened_artists' = [ u \in Range(Keys) |-> << >> ]
              /\ UNCHANGED << server, num_top_songs, num_top_artists, error,
                              item_data, users, item_idx, artists, minutes_listened,
                              dumps, assets, docs >>

\* Lines 175-184 for one user, and at the end of the loop line 187.
MostListenedArtists ==
  /\ Running("top_artists")
  /\ LET user == Keys[user_idx] IN
       IF \E p \in 1..Len(item_data) :
            item_data[p].Artists # << >> /\ ~PlayCount(item_data[p], user).ok
         THEN Raise("KeyError")
         ELSE /\ artists' = Accumulate(FreshArtists(artists), item_data, user)
              /\ most_listened_artists' =
                   [ most_listened_artists EXCEPT
                       ![user] = @ \o TopArtists(artists', num_top_artists) ]
              /\ IF user_idx < Len(users)
                   THEN /\ user_idx' = user_idx + 1
                        /\ UNCHANGED << pc, minutes_listened >>
                   ELSE /\ user_idx' = 1
                        /\ pc' = "minutes"
                        /\ minutes_listened' = [ u \in Range(Keys) |-> 0 ]
              /\ UNCHANGED << server, num_top_songs, num_top_artists, error,
                              item_data, users, item_idx, most_listened_songs,
                              dumps, assets, docs >>

\* Lines 188-190 for one user.
MinutesListened ==
  /\ Running("minutes")
  /\ LET user == Keys[user_idx] IN
       IF KeyErrorFor(item_data, user)
         THEN Raise("KeyError")
         ELSE /\ minutes_listened' =
                   [ minutes_listened EXCEPT ![user] = @ + Minutes(item_data, user) ]
              /\ IF user_idx < Len(users)
                   THEN user_idx' = user_idx + 1 /\ pc' = pc
                   ELSE user_idx' = 1 /\ pc' = "print"
              /\ UNCHANGED << server, num_top_songs, num_top_artists, error,
                              item_data, users, item_idx, most_listened_songs,
                              most_listened_artists, artists, dumps, assets, docs >>

\* The key line 193 looks up in most_listened_songs.
DebugUser == "maf"

\* Lines 193-195.
DebugPrint ==
  /\ Running("print")
  /\ IF DebugUser \in DOMAIN most_listened_songs
       THEN /\ pc' = "get_image"
            /\ user_idx' = 1
            /\ UNCHANGED << server, num_top_songs, num_top_artists, error,
                            item_data, users, item_idx, most_listened_songs,
                            most_listened_artists, artists, minutes_listened,
                            dumps, assets, docs >>
       ELSE Raise("KeyError")

\* The image fetch and the rendering of a user in one loop.
AfterImageRenderAtOnce(k) == [ pc |-> "render", user_idx |-> k ]

\* Where the run goes after the image of user k is stored (lines 197-200).
AfterImage(k) ==
  IF k < Len(users) THEN [ pc |-> "get_image", user_idx |-> k + 1 ]
                    ELSE [ pc |-> "render", user_idx |-> 1 ]

\* Lines 197-198 for one user; get_item_image (lines 19-27) succeeds.
GetItemImage ==
  /\ Running("get_image")
  /\ LET songs == most_listened_songs[Keys[user_idx]] IN
       IF songs = << >>
         THEN Raise("IndexError")
         ELSE /\ assets' = assets \cup { item_data[songs[1]].Id }
              /\ pc' = AfterImage(user_idx).pc
              /\ user_idx' = AfterImage(user_idx).user_idx
              /\ UNCHANGED << server, num_top_songs, num_top_artists, error,
                              item_data, users, item_idx, most_listened_songs,
                              most_listened_artists, artists, minutes_listened,
                              dumps, docs >>

\* Line 258: the rows the table loop sets out to write.
TableRange(n_songs, n_artists) == Min(n_songs, n_artists)

\* Lines 260-261: row i of a user's table.
TableRow(user, i) ==
  << most_listened_artists[user][i][1], item_data[most_listened_songs[user][i]].Name >>

\* Lines 200-270 for one user.  The file is created by open(); what reaches
\* it before an IndexError stays in it.
Render ==
  /\ Running("render")
  /\ LET user  == Keys[user_idx]
         songs == most_listened_songs[user]
         arts  == most_listened_artists[user]
         want  == TableRange(num_top_songs, num_top_artists)
         have  == Min(want, Min(Len(arts), Len(songs)))
         image == IF songs = << >> THEN "" ELSE ImageRef(item_data[songs[1]].Id)
         rows  == IF songs = << >> THEN << >>
                  ELSE [ i \in 1..have |-> TableRow(user, i) ]
         ok    == songs # << >> /\ have = want
         doc   == [ image |-> image, rows |-> rows,
                    minutes |-> IF ok THEN << minutes_listened[user] >> ELSE << >>,
                    complete |-> ok ]
     IN  /\ docs' = (HtmlOutput(user) :> doc) @@ docs
         /\ IF ok
              THEN /\ error' = error
                   /\ IF user_idx < Len(users)
                        THEN user_idx' = user_idx + 1 /\ pc' = pc
                        ELSE user_idx' = user_idx /\ pc' = "done"
              ELSE /\ error' = "IndexError"
                   /\ UNCHANGED << pc, user_idx >>
  /\ UNCHANGED << server, num_top_songs, num_top_artists, item_data, users,
                  item_idx, most_listened_songs, most_listened_artists, artists,
                  minutes_listened, dumps, assets >>

Next ==
  \/ GetAllAudioItems
  \/ GetAllUsers
  \/ AddItemUserData
  \/ DumpAllItems
  \/ MostListenedSongs
  \/ MostListenedArtists
  \/ MinutesListened
  \/ DebugPrint
  \/ GetItemImage
  \/ Render
  \/ FetchFails

Spec == Init /\ [][Next]_vars

\* ------------------------------------------------------------- claims
\* The order of the statements the run goes through.
PhaseOrder ==
  [ get_items |-> 1, get_users |-> 2, add_userdata |-> 3, top_songs |-> 4,
    top_artists |-> 5, minutes |-> 6, print |-> 7, get_image |-> 8, render |-> 9,
    done |-> 10 ]

PhaseNo(at) == PhaseOrder[at]

UserNames == Range(Keys)

UserPos(u) == CHOOSE p \in 1..Len(users) : users[p].Name = u

\* The loop of the phase `at` has finished the pass of user u.
Passed(at, u) ==
  \/ PhaseNo(pc) > PhaseNo(at)
  \/ pc = at /\ UserPos(u) < user_idx

Plays(p, u) == item_data[p].UserData[u].PlayCount

Credits(p, a) == a \in Range(item_data[p].Artists)

Credited == UNION { Range(item_data[p].Artists) : p \in 1..Len(item_data) }

RECURSIVE TotalFrom(_, _, _)
TotalFrom(p, a, u) ==
  IF p > Len(item_data) THEN 0
  ELSE (IF Credits(p, a) THEN Plays(p, u) ELSE 0) + TotalFrom(p + 1, a, u)

Total(a, u) == TotalFrom(1, a, u)

\* The place of the first credit of artist a while scanning the items.
FirstCredit(a) ==
  LET p == CHOOSE q \in 1..Len(item_data) :
             Credits(q, a) /\ \A r \in 1..(q - 1) : ~Credits(r, a)
      c == CHOOSE d \in 1..Len(item_data[p].Artists) : item_data[p].Artists[d] = a
  IN  << p, c >>

Earlier(x, y) == x[1] < y[1] \/ (x[1] = y[1] /\ x[2] < y[2])

SongBefore(p, q, u) ==
  Plays(p, u) > Plays(q, u) \/ (Plays(p, u) = Plays(q, u) /\ p < q)

ArtistBefore(a, b, u) ==
  LET ta == Total(a, u)
      tb == Total(b, u)
  IN  ta > tb \/ (ta = tb /\ Earlier(FirstCredit(a), FirstCredit(b)))

IsTopSongs(s, u) ==
  /\ Len(s) = Min(num_top_songs, Len(item_data))
  /\ \A k \in 1..Len(s) : s[k] \in 1..Len(item_data)
  /\ \A k \in 1..Len(s) : \A l \in (k + 1)..Len(s) : SongBefore(s[k], s[l], u)
  /\ \A k \in 1..Len(s) : \A p \in (1..Len(item_data)) \ Range(s) :
       SongBefore(s[k], p, u)

IsTopArtists(l, u) ==
  LET credited == Credited
      listed   == { l[j][1] : j \in 1..Len(l) }
  IN  /\ Len(l) = Min(num_top_artists, Cardinality(credited))
      /\ \A k \in 1..Len(l) : l[k][1] \in credited /\ l[k][2] = Total(l[k][1], u)
      /\ \A k \in 1..Len(l) : \A j \in (k + 1)..Len(l) : ArtistBefore(l[k][1], l[j][1], u)
      /\ \A k \in 1..Len(l) : \A a \in credited \ listed : ArtistBefore(l[k][1], a, u)

\* C1: a user's top songs are the first min(num_top_songs, number of items)
\* items in non-increasing PlayCount order, equal counts in input order, items
\* with no plays included when they are needed to fill the list.
C1_TopSongsStableDescending ==
  \A u \in UserNames :
    Passed("top_songs", u) => IsTopSongs(most_listened_songs[u], u)

C1_Witness ==
  \E u \in UserNames :
    /\ Passed("top_songs", u)
    /\ Len(most_listened_songs[u]) = 2
    /\ most_listened_songs[u][1] < most_listened_songs[u][2]
    /\ Plays(most_listened_songs[u][1], u) = Plays(most_listened_songs[u][2], u)
    /\ \E v \in UserNames :
         /\ Passed("top_songs", v)
         /\ Len(most_listened_songs[v]) = 2
         /\ most_listened_songs[v][1] > most_listened_songs[v][2]
         /\ Plays(most_listened_songs[v][2], v) = 0

\* C2: a user's top artists are the first min(num_top_artists, number of
\* artists) pairs <<artist, total>>, the total being the sum of the full play
\* counts of the items crediting the artist, in non-increasing order of total,
\* equal totals in the order of first credit.
C2_TopArtistsFullCredit ==
  \A u \in UserNames :
    Passed("top_artists", u) => IsTopArtists(most_listened_artists[u], u)

C2_Witness ==
  \E u \in UserNames : \E p \in 1..Len(item_data) :
    /\ Passed("top_artists", u)
    /\ Len(item_data[p].Artists) = 2
    /\ Plays(p, u) > 0
    /\ Len(most_listened_artists[u]) = 2
    /\ most_listened_artists[u][1][2] = most_listened_artists[u][2][2]
    /\ most_listened_artists[u][1][2] = Plays(p, u)

\* C3: minutes listened is the sum of (RunTimeTicks / 6e7) * PlayCount, not
\* rounded, and the scenario gives alice [S1, S2] and 7 minutes, bob [S2, S3]
\* and 11 minutes.
SongIds(u) ==
  [ k \in 1..Len(most_listened_songs[u]) |-> item_data[most_listened_songs[u][k]].Id ]

C3_MinutesExact ==
  /\ \A u \in UserNames :
       Passed("minutes", u) =>
         minutes_listened[u] * QuarterMinuteTicks =
           SeqSum([ p \in 1..Len(item_data) |->
                      item_data[p].RunTimeTicks * Plays(p, u) ])
  /\ (server = "scenario" /\ num_top_songs = 2 /\ PhaseNo(pc) > PhaseNo("minutes")) =>
       /\ SongIds("alice") = << "S1", "S2" >>
       /\ minutes_listened["alice"] * QuarterMinuteTicks = 7 * TicksPerMinute
       /\ SongIds("bob") = << "S2", "S3" >>
       /\ minutes_listened["bob"] * QuarterMinuteTicks = 11 * TicksPerMinute

C3_Witness ==
  /\ server = "scenario"
  /\ num_top_songs = 2
  /\ pc = "print"
  /\ minutes_listened["alice"] > 0
  /\ minutes_listened["bob"] > 0

\* C4: with an empty catalog and at least one user the run does not fail
\* (stated for the user lists that get past the lookup of line 193).
C4_EmptyCatalogRunSucceeds ==
  ( /\ PhaseNo(pc) > PhaseNo("get_users")
    /\ item_data = << >>
    /\ DebugUser \in UserNames )
  => error = "none"

\* C5: rendering never raises and every table has min(number of top songs,
\* number of top artists) rows.
C5_RenderNeverRaises ==
  pc = "render" =>
    /\ error = "none"
    /\ \A u \in UserNames :
         HtmlOutput(u) \in DOMAIN docs =>
           /\ docs[HtmlOutput(u)].complete
           /\ Len(docs[HtmlOutput(u)].rows) =
                Min(Len(most_listened_songs[u]), Len(most_listened_artists[u]))

\* C6: no document exists before every fetch and the aggregation are over, and
\* none exists after a failed fetch.
EverythingFetched ==
  /\ { "users.json", "all_items.json" } \subseteq dumps
  /\ PhaseNo(pc) >= PhaseNo("render")
  /\ \A p \in 1..Len(item_data) : DOMAIN item_data[p].UserData = UserNames
  /\ \A u \in UserNames :
       /\ most_listened_songs[u] # << >>
       /\ item_data[most_listened_songs[u][1]].Id \in assets

C6_DocumentsAfterAllFetches ==
  /\ DOMAIN docs # { } => EverythingFetched
  /\ error = "Exception" => DOMAIN docs = { }

C6_Witness ==
  /\ error = "Exception"
  /\ pc = "get_image"
  /\ user_idx = 2
  /\ assets # { }

\* C7: with distinct user names, a non-empty catalog and no failed fetch the
\* run ends normally with one document per user, whatever the names are.
C7_OneDocumentPerUser ==
  ( /\ server = "bounded"
    /\ users # << >>
    /\ item_data # << >>
    /\ num_top_songs >= 1
    /\ TableRange(num_top_songs, num_top_artists) <= Min(Len(item_data), Cardinality(Credited))
    /\ error # "Exception"
    /\ error # "none" \/ pc = "done" )
  => /\ pc = "done"
     /\ DOMAIN docs = { HtmlOutput(u) : u \in UserNames }

\* C8: an item without a PlayCount for a user stops the aggregation at the top
\* songs of that user with a KeyError; no list or total of that user is ever
\* computed from it and no document is written.
Missing(u) ==
  \E p \in 1..Len(item_data) :
    /\ u \in DOMAIN item_data[p].UserData
    /\ "PlayCount" \notin DOMAIN item_data[p].UserData[u]

C8_MissingPlayCountHalts ==
  \A u \in UserNames :
    Missing(u) =>
      /\ DOMAIN docs = { }
      /\ pc \in { "add_userdata", "top_songs" }
      /\ pc = "top_songs" => user_idx <= UserPos(u)
      /\ u \in DOMAIN most_listened_songs => most_listened_songs[u] = << >>
      /\ u \notin DOMAIN most_listened_artists
      /\ u \notin DOMAIN minutes_listened
      /\ error \in { "none", "Exception", "KeyError" }
      /\ (pc = "top_songs" /\ user_idx = UserPos(u) /\ error # "none")
           => error = "KeyError"

C8_Witness ==
  /\ error = "KeyError"
  /\ pc = "top_songs"
  /\ user_idx = 2
  /\ Missing(Keys[2])
  /\ most_listened_songs[Keys[1]] # << >>

\* C9: resolving the image of a user with no top song gives "no image"
\* instead of raising.
C9_NoImageWhenNoTopSong ==
  (pc = "get_image" /\ most_listened_songs[Keys[user_idx]] = << >>)
    => error = "none"

\* C10: a user's recap is computed from the items and the user's own play
\* counts alone, whatever the other users' counts and the order of the users,
\* and the aggregation changes neither item_data nor users.
OwnView(u) ==
  [ p \in 1..Len(item_data) |->
      [ item_data[p] EXCEPT !.UserData = [ n \in { u } |-> item_data[p].UserData[n] ] ] ]

SameColumn(u, v) ==
  \A p \in 1..Len(item_data) : item_data[p].UserData[u] = item_data[p].UserData[v]

OwnDataOnly ==
  /\ \A u \in UserNames :
       /\ Passed("top_songs", u) =>
            most_listened_songs[u] = TopSongs(OwnView(u), u, num_top_songs)
       /\ Passed("top_artists", u) =>
            most_listened_artists[u] =
              TopArtists(Accumulate(<< >>, OwnView(u), u), num_top_artists)
       /\ Passed("minutes", u) => minutes_listened[u] = Minutes(OwnView(u), u)
  /\ \A u, v \in UserNames :
       /\ (Passed("top_songs", u) /\ Passed("top_songs", v) /\ SameColumn(u, v)) =>
            most_listened_songs[u] = most_listened_songs[v]
       /\ (Passed("top_artists", u) /\ Passed("top_artists", v) /\ SameColumn(u, v)) =>
            most_listened_artists[u] = most_listened_artists[v]
       /\ (Passed("minutes", u) /\ Passed("minutes", v) /\ SameColumn(u, v)) =>
            minutes_listened[u] = minutes_listened[v]

Aggregating == pc \in { "top_songs", "top_artists", "minutes" }

\* The recap is checked in every state up to the end of the aggregation, and
\* no later step changes it.
C10_RecapFromOwnPlayCounts ==
  [][ /\ PhaseNo(pc) <= PhaseNo("print") => OwnDataOnly
      /\ PhaseNo(pc) >= PhaseNo("print") =>
           UNCHANGED << most_listened_songs, most_listened_artists, minutes_listened >>
      /\ Aggregating => UNCHANGED << item_data, users >> ]_vars

C10_Witness ==
  /\ pc = "print"
  /\ Len(users) = 2
  /\ SameColumn(Keys[1], Keys[2])
  /\ most_listened_artists[Keys[2]] # << >>
  /\ most_listened_artists[Keys[2]][1][2] > 0
  /\ minutes_listened[Keys[2]] > 0
====
